---------------------------- MODULE Spec2Model ----------------------------
(***************************************************************************)
(* Model of examples/ahrs/ahrs.cpp: the 9-axis AHRS built from two         *)
(* unscented Kalman filters (the AHRS filter `ahrs` and the sensor-error   *)
(* parameter filter `ahrs_errors`) and the flat C interface around them.   *)
(*                                                                         *)
(* Numbers.  real_t values are integers in a fixed unit per quantity:      *)
(*   - accelerations, accelerometer biases and readings: 1e-5 m/s^2        *)
(*     (so G_ACCEL = 9.80665 is 980665);                                   *)
(*   - quaternion components, angular rates, magnetic quantities and       *)
(*     scale factors: 1;                                                   *)
(*   - variances (covariance, process noise, measurement noise): 1e-6      *)
(*     (so 7e-5 is 70 and 1e0 is 1000000).                                 *)
(* The diagonal-only matrices of the source (process_noise,                *)
(* error_process_noise) are kept as their diagonals.  A filter covariance  *)
(* is kept as its diagonal plus a flag `dense` telling whether any         *)
(* off-diagonal entry may be non-zero.                                     *)
(***************************************************************************)
EXTENDS Integers, Sequences, FiniteSets, TLC

(***************************************************************************)
(* Bounds of the model.                                                    *)
(***************************************************************************)
\* Number of calls of the C interface in one behaviour.
MaxCalls == 4

(***************************************************************************)
(* Program constants.                                                      *)
(***************************************************************************)
\* #define G_ACCEL (9.80665), in 1e-5 m/s^2.
G_ACCEL == 980665

\* #define EARTH_MAG (45.0)
EARTH_MAG == 45

(***************************************************************************)
(* Vectors, quaternions (Eigen coefficient order x, y, z, w).              *)
(***************************************************************************)
Vec3(x, y, z) == <<x, y, z>>

Zero3 == <<0, 0, 0>>

Ones3 == <<1, 1, 1>>

Rep(n, v) == [i \in 1..n |-> v]

VAdd(a, b) == [i \in 1..Len(a) |-> a[i] + b[i]]

\* Eigen .array() * .array(): the coefficient-wise product.
CwiseProduct(a, b) == [i \in 1..Len(a) |-> a[i] * b[i]]

VScale(k, a) == [i \in 1..Len(a) |-> k * a[i]]

Cross(a, b) ==
    << a[2] * b[3] - a[3] * b[2],
       a[3] * b[1] - a[1] * b[3],
       a[1] * b[2] - a[2] * b[1] >>

\* UKF::Quaternion(w, x, y, z): the constructor takes w first, the
\* coefficients are stored x, y, z, w.
Quaternion(w, x, y, z) == <<x, y, z, w>>

QVec(q) == <<q[1], q[2], q[3]>>

QW(q) == q[4]

QConjugate(q) == <<-q[1], -q[2], -q[3], q[4]>>

\* Quaternion * Quaternion (Hamilton product).
QMul(a, b) ==
    << a[4] * b[1] + a[1] * b[4] + a[2] * b[3] - a[3] * b[2],
       a[4] * b[2] + a[2] * b[4] + a[3] * b[1] - a[1] * b[3],
       a[4] * b[3] + a[3] * b[4] + a[1] * b[2] - a[2] * b[1],
       a[4] * b[4] - a[1] * b[1] - a[2] * b[2] - a[3] * b[3] >>

\* Quaternion * Vector3: Eigen computes v + w * uv + u x uv with
\* uv = 2 * (u x v), u the vector part.
QRotate(q, v) ==
    LET u  == QVec(q)
        uv == VScale(2, Cross(u, v))
    IN  VAdd(VAdd(v, VScale(QW(q), uv)), Cross(u, uv))

QNormSquared(q) == q[1] * q[1] + q[2] * q[2] + q[3] * q[3] + q[4] * q[4]

\* Eigen::Map<UKF::Matrix<3, 3>> over nine stored values (column-major:
\* entry (i, j) is data[i + 3 * (j - 1)]), times a 3-vector.
MapMatVec(data, v) ==
    [i \in 1..3 |-> data[i] * v[1] + data[i + 3] * v[2] + data[i + 6] * v[3]]

(***************************************************************************)
(* Measurement fields.                                                     *)
(***************************************************************************)
MeasurementKeys == <<"Accelerometer", "Gyroscope", "Magnetometer">>

MeasurementKeySet == {MeasurementKeys[i] : i \in 1..Len(MeasurementKeys)}

\* Offset of a field in AHRS_MeasurementVector (three slots per field).
MeasurementOffset(key) ==
    CASE key = "Accelerometer" -> 0
      [] key = "Gyroscope"     -> 3
      [] key = "Magnetometer"  -> 6

(***************************************************************************)
(* AHRS measurement model with the parameter filter state as input.        *)
(***************************************************************************)
expected_measurement_State_Accelerometer(state, input) ==
    VAdd(input.AccelerometerBias,
         CwiseProduct(input.AccelerometerScaleFactor,
                      VAdd(state.Acceleration,
                           QRotate(state.Attitude, Vec3(0, 0, -G_ACCEL)))))

expected_measurement_State_Gyroscope(state, input) ==
    VAdd(input.GyroscopeBias,
         CwiseProduct(input.GyroscopeScaleFactor, state.AngularVelocity))

expected_measurement_State_Magnetometer(state, input) ==
    VAdd(input.MagnetometerBias,
         MapMatVec(input.MagnetometerScaleFactor,
                   QRotate(state.Attitude, Vec3(1, 0, 0))))

(***************************************************************************)
(* Parameter filter measurement model with the AHRS state as input.        *)
(***************************************************************************)
expected_measurement_Error_Accelerometer(state, input) ==
    VAdd(state.AccelerometerBias,
         CwiseProduct(state.AccelerometerScaleFactor,
                      VAdd(input.Acceleration,
                           QRotate(input.Attitude, Vec3(0, 0, -G_ACCEL)))))

expected_measurement_Error_Gyroscope(state, input) ==
    VAdd(state.GyroscopeBias,
         CwiseProduct(state.GyroscopeScaleFactor, input.AngularVelocity))

\* The scale matrix read by rows.
expected_measurement_Error_Magnetometer_ByRows(state, input) ==
    LET v == QRotate(input.Attitude, Vec3(1, 0, 0))
        m == state.MagnetometerScaleFactor
    IN  VAdd(state.MagnetometerBias,
             [i \in 1..3 |-> m[3 * i - 2] * v[1] + m[3 * i - 1] * v[2] + m[3 * i] * v[3]])

expected_measurement_Error_Magnetometer(state, input) ==
    VAdd(state.MagnetometerBias,
         MapMatVec(state.MagnetometerScaleFactor,
                   QRotate(input.Attitude, Vec3(1, 0, 0))))

\* The specialisation the library picks for a filter (its state vector
\* type) and a measurement field.
expected_measurement(filter, key, state, input) ==
    CASE filter = "ahrs" /\ key = "Accelerometer" ->
             expected_measurement_State_Accelerometer(state, input)
      [] filter = "ahrs" /\ key = "Gyroscope" ->
             expected_measurement_State_Gyroscope(state, input)
      [] filter = "ahrs" /\ key = "Magnetometer" ->
             expected_measurement_State_Magnetometer(state, input)
      [] filter = "ahrs_errors" /\ key = "Accelerometer" ->
             expected_measurement_Error_Accelerometer(state, input)
      [] filter = "ahrs_errors" /\ key = "Gyroscope" ->
             expected_measurement_Error_Gyroscope(state, input)
      [] filter = "ahrs_errors" /\ key = "Magnetometer" ->
             expected_measurement_Error_Magnetometer(state, input)

(***************************************************************************)
(* Program state.                                                          *)
(***************************************************************************)
VARIABLES
    ahrs,                   \* static AHRS_Filter ahrs
    ahrs_errors,            \* static AHRS_ParameterEstimationFilter ahrs_errors
    process_noise,          \* diagonal of AHRS_StateVector::CovarianceMatrix
    error_process_noise,    \* diagonal of AHRS_SensorErrorVector::CovarianceMatrix
    meas,                   \* static AHRS_MeasurementVector meas
    measurement_covariance, \* AHRS_MeasurementVector::measurement_covariance
    pc,                     \* position in ukf_iterate: 0 outside a call,
                            \* i in 1..7 before statement i, 8 before return
    dt,                     \* argument of the ukf_iterate call in progress
    out_state,              \* the ukf_state_t last written by ukf_get_state
    last_call,              \* the last call of the interface that returned
    calls,                  \* number of calls made
    tick,                   \* history of the ukf_iterate call in progress
    fn                      \* inputs and results of the function evaluations

vars == << ahrs, ahrs_errors, process_noise, error_process_noise, meas,
           measurement_covariance, pc, dt, out_state, last_call, calls,
           tick, fn >>

(***************************************************************************)
(* Process models.                                                         *)
(***************************************************************************)
\* real_t product v * 0.5 (exact on the even rates the model feeds in).
Half(v) == [i \in 1..Len(v) |-> v[i] \div 2]

\* AHRS_StateVector::derivative<>()
derivative_State(s) ==
    LET omega_q == Quaternion(0, Half(s.AngularVelocity)[1],
                              Half(s.AngularVelocity)[2],
                              Half(s.AngularVelocity)[3])
    IN  [ Acceleration    |-> Vec3(0, 0, 0),
          Attitude        |-> QMul(QConjugate(omega_q), s.Attitude),
          AngularVelocity |-> Vec3(0, 0, 0) ]

\* AHRS_StateVector::process_noise_covariance(dt)
process_noise_covariance_State(d) == VScale(d, process_noise)

\* AHRS_SensorErrorVector::Zero()
ErrorVectorZero ==
    [ AccelerometerBias        |-> Zero3,
      AccelerometerScaleFactor |-> Zero3,
      GyroscopeBias            |-> Zero3,
      GyroscopeScaleFactor     |-> Zero3,
      MagnetometerBias         |-> Zero3,
      MagnetometerScaleFactor  |-> Rep(9, 0) ]

\* AHRS_SensorErrorVector::derivative<>()
derivative_Error(s) == ErrorVectorZero

\* AHRS_SensorErrorVector::process_noise_covariance(dt)
process_noise_covariance_Error(d) == VScale(d, error_process_noise)

(***************************************************************************)
(* The filter library (UKF::Core, UKF::StateVector, the integrators and    *)
(* UKF::DynamicMeasurementVector).  The unscented transform is reduced to  *)
(* its per-slot scalar form: a measurement axis observes one tangent slot  *)
(* of the state with unit sensitivity, so the cross-covariance of the axis *)
(* is the variance of that slot and the innovation covariance is that      *)
(* variance plus the measurement variance.  Rotations are quantised to the *)
(* quaternion group (half-turns about the body axes); the attitudes of the *)
(* model have one non-zero component.                                      *)
(***************************************************************************)
Sgn(x) == IF x > 0 THEN 1 ELSE IF x < 0 THEN -1 ELSE 0

Abs(x) == IF x < 0 THEN -x ELSE x

SubVec(v, from, n) == [i \in 1..n |-> v[from + i - 1]]

\* Normalisation of a quaternion with one non-zero component.
QNormalise(q) == [i \in 1..4 |-> Sgn(q[i])]

\* The unit quaternion of a tangent vector: the identity for the zero
\* vector, else the half-turn about its dominant axis.
DeltaQuaternion(t) ==
    IF t = Zero3 THEN Quaternion(1, 0, 0, 0)
    ELSE LET k == CHOOSE i \in 1..3 :
                      /\ \A j \in 1..3 : Abs(t[i]) >= Abs(t[j])
                      /\ \A j \in 1..(i - 1) : Abs(t[j]) < Abs(t[i])
         IN  [i \in 1..4 |-> IF i = k THEN Sgn(t[k]) ELSE 0]

\* Q <- Q (x) q_delta, normalised.
Retract(q, t) == QNormalise(QMul(q, DeltaQuaternion(t)))

\* state [+] delta for the AHRS state vector (tangent slots: attitude 1..3,
\* angular velocity 4..6, acceleration 7..9).
apply_delta_State(s, delta) ==
    [ Attitude        |-> Retract(s.Attitude, SubVec(delta, 1, 3)),
      AngularVelocity |-> VAdd(s.AngularVelocity, SubVec(delta, 4, 3)),
      Acceleration    |-> VAdd(s.Acceleration, SubVec(delta, 7, 3)) ]

\* state [+] delta for the sensor error vector (24 slots in field order).
apply_delta_Error(s, delta) ==
    [ AccelerometerBias        |-> VAdd(s.AccelerometerBias, SubVec(delta, 1, 3)),
      AccelerometerScaleFactor |-> VAdd(s.AccelerometerScaleFactor, SubVec(delta, 4, 3)),
      GyroscopeBias            |-> VAdd(s.GyroscopeBias, SubVec(delta, 7, 3)),
      GyroscopeScaleFactor     |-> VAdd(s.GyroscopeScaleFactor, SubVec(delta, 10, 3)),
      MagnetometerBias         |-> VAdd(s.MagnetometerBias, SubVec(delta, 13, 3)),
      MagnetometerScaleFactor  |-> VAdd(s.MagnetometerScaleFactor, SubVec(delta, 16, 9)) ]

apply_delta(filter, s, delta) ==
    IF filter = "ahrs" THEN apply_delta_State(s, delta)
    ELSE apply_delta_Error(s, delta)

covariance_size(filter) == IF filter = "ahrs" THEN 9 ELSE 24

\* dt times the derivative as a tangent vector.  The rate quaternion d of
\* an attitude q stands for the body rate 2 * vec(d (x) q^-1).
StepDelta_State(s, d) ==
    LET k    == derivative_State(s)
        rate == VScale(2, QVec(QMul(k.Attitude, QConjugate(s.Attitude))))
    IN  VScale(d, rate \o k.AngularVelocity \o k.Acceleration)

StepDelta_Error(s, d) ==
    LET k == derivative_Error(s)
    IN  VScale(d, k.AccelerometerBias \o k.AccelerometerScaleFactor
                  \o k.GyroscopeBias \o k.GyroscopeScaleFactor
                  \o k.MagnetometerBias \o k.MagnetometerScaleFactor)

\* UKF::IntegratorRK4 (ahrs) and UKF::IntegratorEuler (ahrs_errors).  The
\* rates of both process models are constant over a step, where both
\* integrators amount to state [+] dt * f(state).
Integrate(filter, s, d) ==
    IF filter = "ahrs" THEN apply_delta_State(s, StepDelta_State(s, d))
    ELSE apply_delta_Error(s, StepDelta_Error(s, d))

process_noise_covariance(filter, d) ==
    IF filter = "ahrs" THEN process_noise_covariance_State(d)
    ELSE process_noise_covariance_Error(d)

\* First tangent slot (minus one) of the state field a measurement field
\* observes: for ahrs the acceleration, the angular velocity and the
\* attitude; for ahrs_errors the bias of the sensor.
ObservedSlot(filter, key) ==
    CASE filter = "ahrs" /\ key = "Accelerometer"        -> 6
      [] filter = "ahrs" /\ key = "Gyroscope"            -> 3
      [] filter = "ahrs" /\ key = "Magnetometer"         -> 0
      [] filter = "ahrs_errors" /\ key = "Accelerometer" -> 0
      [] filter = "ahrs_errors" /\ key = "Gyroscope"     -> 6
      [] filter = "ahrs_errors" /\ key = "Magnetometer"  -> 12

\* Core::a_priori_step(dt): propagate the mean, inflate the covariance by
\* the process noise scaled by dt.
a_priori_step(filter, f, d) ==
    [ f EXCEPT
        !.state = Integrate(filter, f.state, d),
        !.covariance = [ f.covariance EXCEPT
            !.diag = VAdd(f.covariance.diag, process_noise_covariance(filter, d)) ],
        !.stage = "A_PRIORI_DONE" ]

\* Field and axis of entry j of the measurement vector z.
EntryOf(j) == ((j - 1) \div 3) + 1

AxisOf(j) == ((j - 1) % 3) + 1

\* Core::innovation_step(z, input): residual, cross-covariance and
\* innovation covariance over the enabled fields of z, in z's order.
innovation_step(filter, f, z, input) ==
    LET n        == 3 * Len(z)
        slot(j)  == ObservedSlot(filter, z[EntryOf(j)].key) + AxisOf(j)
        pred(j)  == expected_measurement(filter, z[EntryOf(j)].key,
                                         f.state, input)[AxisOf(j)]
        noise(j) == measurement_covariance[
                        MeasurementOffset(z[EntryOf(j)].key) + AxisOf(j)]
    IN  [ f EXCEPT
            !.innovation = [j \in 1..n |-> z[EntryOf(j)].value[AxisOf(j)] - pred(j)],
            !.cross_correlation =
                [j \in 1..n |-> [slot |-> slot(j), cov |-> f.covariance.diag[slot(j)]]],
            !.innovation_covariance =
                [j \in 1..n |-> f.covariance.diag[slot(j)] + noise(j)],
            !.stage = "INNOVATION_DONE" ]

\* K = P_xy / S_yy to three decimals, and K * x.
KalmanGain(pxy, syy) == ((pxy \div 1000) * 1000) \div (syy \div 1000)

TimesGain(k, x) == (x \div 1000) * k + ((x % 1000) * k) \div 1000

\* Core::a_posteriori_step(): retract the mean by K * y, reduce the
\* covariance by K * S_yy * K^T.  With an empty measurement vector K has no
\* columns and the update is zero.
a_posteriori_step(filter, f) ==
    LET m       == Len(f.innovation)
        cols(s) == {j \in 1..m : f.cross_correlation[j].slot = s}
        gain(j) == KalmanGain(f.cross_correlation[j].cov, f.innovation_covariance[j])
        upd(s)  == IF cols(s) = {} THEN 0
                   ELSE LET j == CHOOSE c \in cols(s) : TRUE
                        IN  TimesGain(gain(j), f.innovation[j])
        dec(s)  == IF cols(s) = {} THEN 0
                   ELSE LET j == CHOOSE c \in cols(s) : TRUE
                        IN  TimesGain(gain(j), f.cross_correlation[j].cov)
        L       == covariance_size(filter)
    IN  [ f EXCEPT
            !.state = apply_delta(filter, f.state, [s \in 1..L |-> upd(s)]),
            !.covariance = [ diag  |-> [s \in 1..L |-> f.covariance.diag[s] - dec(s)],
                             dense |-> f.covariance.dense \/ m > 0 ],
            !.stage = "IDLE" ]

\* DynamicMeasurementVector::set_field: overwrite an enabled field in
\* place, else append it.
set_field_meas(z, key, v) ==
    IF \E i \in 1..Len(z) : z[i].key = key
    THEN [i \in 1..Len(z) |-> IF z[i].key = key THEN [key |-> key, value |-> v]
                              ELSE z[i]]
    ELSE Append(z, [key |-> key, value |-> v])

(***************************************************************************)
(* Values set by ukf_init and by the static initialisers.                  *)
(***************************************************************************)
\* ahrs.state after ukf_init.
ukf_init_state ==
    [ Attitude        |-> Quaternion(1, 0, 0, 0),
      AngularVelocity |-> Vec3(0, 0, 0),
      Acceleration    |-> Vec3(0, 0, 0) ]

\* ahrs.covariance = Zero(); ahrs.covariance.diagonal() << ...  (c is the
\* matrix before the two statements).
ukf_init_covariance_NoZero(c) ==
    [ diag  |-> Rep(6, 1000000) \o Rep(3, 5000000),
      dense |-> c.dense ]

ukf_init_covariance(c) ==
    [ diag  |-> Rep(6, 1000000) \o Rep(3, 5000000),
      dense |-> FALSE ]

\* process_noise = Zero(); process_noise.diagonal() << 7e-5, 1e0, 2e1.
ukf_init_process_noise ==
    VScale(70, Ones3) \o VScale(1000000, Ones3) \o VScale(20000000, Ones3)

\* ahrs_errors.state after ukf_init; the scale matrix is stored by columns.
ukf_init_error_state ==
    [ AccelerometerBias        |-> Vec3(0, 0, 0),
      AccelerometerScaleFactor |-> Vec3(1, 1, 1),
      GyroscopeBias            |-> Vec3(0, 0, 0),
      GyroscopeScaleFactor     |-> Vec3(1, 1, 1),
      MagnetometerBias         |-> Vec3(0, 0, 0),
      MagnetometerScaleFactor  |->
          [k \in 1..9 |-> IF (k - 1) % 3 = (k - 1) \div 3 THEN EARTH_MAG ELSE 0] ]

\* ahrs_errors.covariance = Zero(); ...diagonal() << 0.49, 0.49, 0.784, ...
ukf_init_error_covariance(c) ==
    [ diag  |-> <<490000, 490000, 784000>> \o VScale(30000, Ones3)
                \o VScale(350000, Ones3) \o VScale(30000, Ones3)
                \o VScale(10000000, Ones3) \o VScale(50000 * EARTH_MAG, Rep(9, 1)),
      dense |-> FALSE ]

\* error_process_noise = Zero(); ...diagonal() << 5.2e-5, 0, 3.0e-3, 0, 1.5e-2, 0.
ukf_init_error_process_noise ==
    VScale(52, Ones3) \o Zero3 \o VScale(3000, Ones3) \o Zero3
    \o VScale(15000, Ones3) \o Rep(9, 0)

\* The static initialiser of measurement_covariance: 0.12, 0.003, 0.3.
measurement_covariance_init ==
    VScale(120000, Ones3) \o VScale(3000, Ones3) \o VScale(300000, Ones3)

\* A statically allocated UKF::Core: zero state and covariance, dynamic
\* matrices of size zero.
CoreStatic(zero_state, L) ==
    [ state                 |-> zero_state,
      covariance            |-> [diag |-> Rep(L, 0), dense |-> FALSE],
      innovation            |-> <<>>,
      innovation_covariance |-> <<>>,
      cross_correlation     |-> <<>>,
      stage                 |-> "IDLE" ]

(***************************************************************************)
(* Arguments the model passes to the interface.                            *)
(***************************************************************************)
\* (w, x, y, z) of ukf_set_attitude.
AttitudeInputs == { <<1, 0, 0, 0>>, <<0, 0, 1, 0>>, <<2, 0, 0, 0>> }

AccelerationInputs == { <<0, 0, 0>>, <<100000, -200000, 300000>> }

AngularVelocityInputs == { <<0, 0, 0>>, <<2, -4, 6>> }

\* struct ukf_state_t; attitude is [x, y, z, w].
StateInputs ==
    { [ acceleration     |-> <<100000, 200000, 300000>>,
        attitude         |-> <<0, 1, 0, 0>>,
        angular_velocity |-> <<4, 6, -2>> ],
      [ acceleration     |-> <<0, 0, -100000>>,
        attitude         |-> <<0, 0, 0, 3>>,
        angular_velocity |-> <<0, 0, 2>> ] }

AccelerometerInputs == { <<0, 0, -G_ACCEL>>, <<30000, 0, -G_ACCEL>> }

GyroscopeInputs == { <<0, 0, 2>> }

MagnetometerInputs == { <<43, 4, 0>> }

\* struct ukf_sensor_params_t
ParamsInputs ==
    { [ accel_covariance |-> <<200000, 210000, 220000>>,
        gyro_covariance  |-> <<4000, 5000, 6000>>,
        mag_covariance   |-> <<400000, 410000, 420000>> ] }

ProcessNoiseInputs ==
    { <<10, 20, 30, 2000000, 2000000, 2000000, 30000000, 30000000, 30000000>> }

DtInputs == { 1, 2 }

(***************************************************************************)
(* History of one ukf_iterate call (not program state).                    *)
(***************************************************************************)
NoTick ==
    [ trace         |-> <<>>,   \* statements executed, in order
      ahrs_prior    |-> <<>>,   \* ahrs state, covariance after its a-priori step
      errors_prior  |-> <<>>,   \* the same for ahrs_errors
      errors_input  |-> <<>>,   \* input passed to ahrs_errors.innovation_step
      ahrs_S        |-> <<>>,   \* ahrs.innovation_covariance as computed
      errors_S_own  |-> <<>>,   \* ahrs_errors.innovation_covariance as computed
      errors_S_used |-> <<>>,   \* the one its a-posteriori step read
      additions     |-> 0 ]     \* executions of the += statement

FnIdle == [ s |-> ukf_init_state, p |-> ukf_init_error_state,
            sizeof_real_t |-> 8, eval |-> <<>>, precision |-> <<>> ]

(***************************************************************************)
(* Initial state: the statics after their initialisers and ukf_init().     *)
(***************************************************************************)
AhrsStatic ==
    CoreStatic([ Attitude |-> <<0, 0, 0, 0>>, AngularVelocity |-> Zero3,
                 Acceleration |-> Zero3 ], 9)

ErrorsStatic == CoreStatic(ErrorVectorZero, 24)

InitProgram ==
    /\ ahrs = [ AhrsStatic EXCEPT
                  !.state = ukf_init_state,
                  !.covariance = ukf_init_covariance(AhrsStatic.covariance) ]
    /\ ahrs_errors = [ ErrorsStatic EXCEPT
                  !.state = ukf_init_error_state,
                  !.covariance = ukf_init_error_covariance(ErrorsStatic.covariance) ]
    /\ process_noise = ukf_init_process_noise
    /\ error_process_noise = ukf_init_error_process_noise
    /\ meas = <<>>
    /\ measurement_covariance = measurement_covariance_init
    /\ pc = 0
    /\ dt = 0
    /\ out_state = [ acceleration |-> Zero3, attitude |-> <<0, 0, 0, 0>>,
                     angular_velocity |-> Zero3 ]
    /\ last_call = [ op |-> "ukf_init", arg |-> <<>> ]
    /\ calls = 0
    /\ tick = NoTick

Init == InitProgram /\ fn = FnIdle

(***************************************************************************)
(* The C interface.  A call is taken outside ukf_iterate only: the         *)
(* interface is single-threaded.                                           *)
(***************************************************************************)
CanCall == pc = 0 /\ calls < MaxCalls

Returned(op, arg) ==
    /\ last_call' = [ op |-> op, arg |-> arg ]
    /\ calls' = calls + 1

ukf_init ==
    /\ CanCall
    /\ ahrs' = [ ahrs EXCEPT
                   !.state = ukf_init_state,
                   !.covariance = ukf_init_covariance(ahrs.covariance) ]
    /\ process_noise' = ukf_init_process_noise
    /\ ahrs_errors' = [ ahrs_errors EXCEPT
                   !.state = ukf_init_error_state,
                   !.covariance = ukf_init_error_covariance(ahrs_errors.covariance) ]
    /\ error_process_noise' = ukf_init_error_process_noise
    /\ Returned("ukf_init", <<>>)
    /\ UNCHANGED << meas, measurement_covariance, pc, dt, out_state, tick, fn >>

SetAhrsState(s, op, arg) ==
    /\ CanCall
    /\ ahrs' = [ ahrs EXCEPT !.state = s ]
    /\ Returned(op, arg)
    /\ UNCHANGED << ahrs_errors, process_noise, error_process_noise, meas,
                    measurement_covariance, pc, dt, out_state, tick, fn >>

ukf_set_acceleration(x, y, z) ==
    SetAhrsState([ ahrs.state EXCEPT !.Acceleration = Vec3(x, y, z) ],
                 "ukf_set_acceleration", <<x, y, z>>)

ukf_set_attitude(w, x, y, z) ==
    SetAhrsState([ ahrs.state EXCEPT !.Attitude = Quaternion(w, x, y, z) ],
                 "ukf_set_attitude", <<w, x, y, z>>)

ukf_set_angular_velocity(x, y, z) ==
    SetAhrsState([ ahrs.state EXCEPT !.AngularVelocity = Vec3(x, y, z) ],
                 "ukf_set_angular_velocity", <<x, y, z>>)

\* The ukf_state_t ukf_get_state fills in (C index k is k + 1 here).
ukf_get_state_value(s) ==
    [ acceleration     |-> << s.Acceleration[1], s.Acceleration[2], s.Acceleration[3] >>,
      attitude         |-> << s.Attitude[1], s.Attitude[2], s.Attitude[3], QW(s.Attitude) >>,
      angular_velocity |-> << s.AngularVelocity[1], s.AngularVelocity[2],
                              s.AngularVelocity[3] >> ]

ukf_get_state ==
    /\ CanCall
    /\ out_state' = ukf_get_state_value(ahrs.state)
    /\ Returned("ukf_get_state", <<>>)
    /\ UNCHANGED << ahrs, ahrs_errors, process_noise, error_process_noise, meas,
                    measurement_covariance, pc, dt, tick, fn >>

\* The state ukf_set_state stores for *in.
ukf_set_state_value_WFirst(in) ==
    [ Acceleration    |-> Vec3(in.acceleration[1], in.acceleration[2], in.acceleration[3]),
      Attitude        |-> Quaternion(in.attitude[1], in.attitude[2], in.attitude[3],
                                     in.attitude[4]),
      AngularVelocity |-> Vec3(in.angular_velocity[1], in.angular_velocity[2],
                               in.angular_velocity[3]) ]

ukf_set_state_value(in) ==
    [ Acceleration    |-> Vec3(in.acceleration[1], in.acceleration[2], in.acceleration[3]),
      Attitude        |-> Quaternion(in.attitude[4], in.attitude[1], in.attitude[2],
                                     in.attitude[3]),
      AngularVelocity |-> Vec3(in.angular_velocity[1], in.angular_velocity[2],
                               in.angular_velocity[3]) ]

ukf_set_state(in) == SetAhrsState(ukf_set_state_value(in), "ukf_set_state", in)

SetMeas(z, op, arg) ==
    /\ CanCall
    /\ meas' = z
    /\ Returned(op, arg)
    /\ UNCHANGED << ahrs, ahrs_errors, process_noise, error_process_noise,
                    measurement_covariance, pc, dt, out_state, tick, fn >>

\* meas = AHRS_MeasurementVector(), with z the vector before.
ukf_sensor_clear_value_Keep(z) == z

ukf_sensor_clear_value(z) == <<>>

ukf_sensor_clear == SetMeas(ukf_sensor_clear_value(meas), "ukf_sensor_clear", <<>>)

ukf_sensor_set_accelerometer(x, y, z) ==
    SetMeas(set_field_meas(meas, "Accelerometer", Vec3(x, y, z)),
            "ukf_sensor_set_accelerometer", <<x, y, z>>)

ukf_sensor_set_gyroscope(x, y, z) ==
    SetMeas(set_field_meas(meas, "Gyroscope", Vec3(x, y, z)),
            "ukf_sensor_set_gyroscope", <<x, y, z>>)

ukf_sensor_set_magnetometer(x, y, z) ==
    SetMeas(set_field_meas(meas, "Magnetometer", Vec3(x, y, z)),
            "ukf_sensor_set_magnetometer", <<x, y, z>>)

ukf_set_params(in) ==
    /\ CanCall
    /\ measurement_covariance' =
           << in.accel_covariance[1], in.accel_covariance[2], in.accel_covariance[3],
              in.gyro_covariance[1], in.gyro_covariance[2], in.gyro_covariance[3],
              in.mag_covariance[1], in.mag_covariance[2], in.mag_covariance[3] >>
    /\ Returned("ukf_set_params", in)
    /\ UNCHANGED << ahrs, ahrs_errors, process_noise, error_process_noise, meas,
                    pc, dt, out_state, tick, fn >>

\* process_noise = Zero(); process_noise.diagonal() << covariance_map.
ukf_set_process_noise(process_noise_covariance_in) ==
    /\ CanCall
    /\ process_noise' = [i \in 1..9 |-> process_noise_covariance_in[i]]
    /\ Returned("ukf_set_process_noise", process_noise_covariance_in)
    /\ UNCHANGED << ahrs, ahrs_errors, error_process_noise, meas,
                    measurement_covariance, pc, dt, out_state, tick, fn >>

(***************************************************************************)
(* ukf_iterate(dt), one action per statement of its body.                  *)
(***************************************************************************)
\* The body with the innovation and a-posteriori steps of ahrs exchanged.
ukf_iterate_body_Swapped ==
    << "ahrs.a_priori_step",
       "ahrs.a_posteriori_step",
       "ahrs.innovation_step",
       "ahrs_errors.a_priori_step",
       "ahrs_errors.innovation_step",
       "ahrs_errors.innovation_covariance +=",
       "ahrs_errors.a_posteriori_step" >>

\* The statements of the body, in program order.
ukf_iterate_body ==
    << "ahrs.a_priori_step",
       "ahrs.innovation_step",
       "ahrs.a_posteriori_step",
       "ahrs_errors.a_priori_step",
       "ahrs_errors.innovation_step",
       "ahrs_errors.innovation_covariance +=",
       "ahrs_errors.a_posteriori_step" >>

\* The call: dt is bound, control is before the first statement.
ukf_iterate_call(d) ==
    /\ CanCall
    /\ pc' = 1
    /\ dt' = d
    /\ calls' = calls + 1
    /\ tick' = NoTick
    /\ UNCHANGED << ahrs, ahrs_errors, process_noise, error_process_noise, meas,
                    measurement_covariance, out_state, last_call, fn >>

\* Control is before statement `name`; it moves past it.
At(name) ==
    /\ pc \in 1..Len(ukf_iterate_body)
    /\ ukf_iterate_body[pc] = name
    /\ pc' = pc + 1

Snapshot(f) == << [ state |-> f.state, covariance |-> f.covariance ] >>

\* ahrs.a_priori_step(dt);
ukf_iterate_ahrs_a_priori ==
    /\ At("ahrs.a_priori_step")
    /\ ahrs' = a_priori_step("ahrs", ahrs, dt)
    /\ tick' = [ tick EXCEPT !.trace = Append(@, "ahrs.a_priori_step"),
                             !.ahrs_prior = Snapshot(ahrs') ]
    /\ UNCHANGED << ahrs_errors, process_noise, error_process_noise, meas,
                    measurement_covariance, dt, out_state, last_call, calls, fn >>

\* ahrs.innovation_step(meas, ahrs_errors.state);
ukf_iterate_ahrs_innovation ==
    /\ At("ahrs.innovation_step")
    /\ ahrs' = innovation_step("ahrs", ahrs, meas, ahrs_errors.state)
    /\ tick' = [ tick EXCEPT !.trace = Append(@, "ahrs.innovation_step"),
                             !.ahrs_S = << ahrs'.innovation_covariance >> ]
    /\ UNCHANGED << ahrs_errors, process_noise, error_process_noise, meas,
                    measurement_covariance, dt, out_state, last_call, calls, fn >>

\* ahrs.a_posteriori_step();
ukf_iterate_ahrs_a_posteriori ==
    /\ At("ahrs.a_posteriori_step")
    /\ ahrs' = a_posteriori_step("ahrs", ahrs)
    /\ tick' = [ tick EXCEPT !.trace = Append(@, "ahrs.a_posteriori_step") ]
    /\ UNCHANGED << ahrs_errors, process_noise, error_process_noise, meas,
                    measurement_covariance, dt, out_state, last_call, calls, fn >>

\* ahrs_errors.a_priori_step(dt);
ukf_iterate_errors_a_priori ==
    /\ At("ahrs_errors.a_priori_step")
    /\ ahrs_errors' = a_priori_step("ahrs_errors", ahrs_errors, dt)
    /\ tick' = [ tick EXCEPT !.trace = Append(@, "ahrs_errors.a_priori_step"),
                             !.errors_prior = Snapshot(ahrs_errors') ]
    /\ UNCHANGED << ahrs, process_noise, error_process_noise, meas,
                    measurement_covariance, dt, out_state, last_call, calls, fn >>

\* ahrs_errors.innovation_step(meas, ahrs.state);
ukf_iterate_errors_innovation ==
    /\ At("ahrs_errors.innovation_step")
    /\ ahrs_errors' = innovation_step("ahrs_errors", ahrs_errors, meas, ahrs.state)
    /\ tick' = [ tick EXCEPT !.trace = Append(@, "ahrs_errors.innovation_step"),
                             !.errors_input = << ahrs.state >>,
                             !.errors_S_own = << ahrs_errors'.innovation_covariance >> ]
    /\ UNCHANGED << ahrs, process_noise, error_process_noise, meas,
                    measurement_covariance, dt, out_state, last_call, calls, fn >>

\* a = b in place of a += b.
AddAssign_Assign(a, b) == b

\* a += b on two dynamic matrices of one size (their diagonals).
AddAssign(a, b) == [j \in 1..Len(a) |-> a[j] + b[j]]

\* ahrs_errors.innovation_covariance += ahrs.innovation_covariance;
ukf_iterate_add_innovation_covariance ==
    /\ At("ahrs_errors.innovation_covariance +=")
    /\ ahrs_errors' = [ ahrs_errors EXCEPT !.innovation_covariance =
                          AddAssign(@, ahrs.innovation_covariance) ]
    /\ tick' = [ tick EXCEPT
                   !.trace = Append(@, "ahrs_errors.innovation_covariance +="),
                   !.additions = @ + 1 ]
    /\ UNCHANGED << ahrs, process_noise, error_process_noise, meas,
                    measurement_covariance, dt, out_state, last_call, calls, fn >>

\* ahrs_errors.a_posteriori_step(); z is the measurement vector afterwards.
ErrorsAPosterioriStatement(z) ==
    /\ At("ahrs_errors.a_posteriori_step")
    /\ ahrs_errors' = a_posteriori_step("ahrs_errors", ahrs_errors)
    /\ tick' = [ tick EXCEPT
                   !.trace = Append(@, "ahrs_errors.a_posteriori_step"),
                   !.errors_S_used = << ahrs_errors.innovation_covariance >> ]
    /\ meas' = z
    /\ UNCHANGED << ahrs, process_noise, error_process_noise,
                    measurement_covariance, dt, out_state, last_call, calls, fn >>

\* The statement followed by a reset of the measurement vector.
ukf_iterate_errors_a_posteriori_Consume == ErrorsAPosterioriStatement(<<>>)

ukf_iterate_errors_a_posteriori == ErrorsAPosterioriStatement(meas)

\* The return: the history of the call ends with it.
ukf_iterate_return ==
    /\ pc = Len(ukf_iterate_body) + 1
    /\ pc' = 0
    /\ last_call' = [ op |-> "ukf_iterate", arg |-> dt ]
    /\ dt' = 0
    /\ tick' = NoTick
    /\ UNCHANGED << ahrs, ahrs_errors, process_noise, error_process_noise, meas,
                    measurement_covariance, out_state, calls, fn >>

Next ==
    \/ ukf_init
    \/ \E v \in AccelerationInputs : ukf_set_acceleration(v[1], v[2], v[3])
    \/ \E q \in AttitudeInputs : ukf_set_attitude(q[1], q[2], q[3], q[4])
    \/ \E v \in AngularVelocityInputs : ukf_set_angular_velocity(v[1], v[2], v[3])
    \/ ukf_get_state
    \/ \E in \in StateInputs : ukf_set_state(in)
    \/ ukf_sensor_clear
    \/ \E v \in AccelerometerInputs : ukf_sensor_set_accelerometer(v[1], v[2], v[3])
    \/ \E v \in GyroscopeInputs : ukf_sensor_set_gyroscope(v[1], v[2], v[3])
    \/ \E v \in MagnetometerInputs : ukf_sensor_set_magnetometer(v[1], v[2], v[3])
    \/ \E in \in ParamsInputs : ukf_set_params(in)
    \/ \E d \in DtInputs : ukf_iterate_call(d)
    \/ ukf_iterate_ahrs_a_priori
    \/ ukf_iterate_ahrs_innovation
    \/ ukf_iterate_ahrs_a_posteriori
    \/ ukf_iterate_errors_a_priori
    \/ ukf_iterate_errors_innovation
    \/ ukf_iterate_add_innovation_covariance
    \/ ukf_iterate_errors_a_posteriori
    \/ ukf_iterate_return
    \/ \E n \in ProcessNoiseInputs : ukf_set_process_noise(n)

Spec == Init /\ [][Next]_vars

(***************************************************************************)
(* The functions of the interface that read no program state, evaluated on *)
(* inputs drawn at the start.                                              *)
(***************************************************************************)
\* AHRS measurement model without input (the ideal prediction).
expected_measurement_Ideal(key, state) ==
    CASE key = "Accelerometer" ->
             VAdd(state.Acceleration, QRotate(state.Attitude, Vec3(0, 0, -G_ACCEL)))
      [] key = "Gyroscope" -> state.AngularVelocity
      [] key = "Magnetometer" -> QRotate(state.Attitude, Vec3(1, 0, 0))

\* sizeof(real_t) == 4 in place of == 8.
ukf_config_get_precision_value_Test4(sizeof_real_t) ==
    IF sizeof_real_t = 4 THEN "UKF_PRECISION_DOUBLE" ELSE "UKF_PRECISION_FLOAT"

ukf_config_get_precision_value(sizeof_real_t) ==
    IF sizeof_real_t = 8 THEN "UKF_PRECISION_DOUBLE" ELSE "UKF_PRECISION_FLOAT"

FnStates ==
    { [ Attitude |-> q, AngularVelocity |-> w, Acceleration |-> a ] :
        q \in { <<0, 0, 0, 1>>, <<0, 1, 0, 0>>, <<1, -1, 0, 2>> },
        w \in { <<0, 0, 0>>, <<2, -4, 6>> },
        a \in { <<0, 0, 0>>, <<100000, -200000, 300000>> } }

FnErrors ==
    { ukf_init_error_state,
      [ AccelerometerBias        |-> <<100, -200, 300>>,
        AccelerometerScaleFactor |-> <<1, 2, 3>>,
        GyroscopeBias            |-> <<1, -1, 2>>,
        GyroscopeScaleFactor     |-> <<2, 1, -1>>,
        MagnetometerBias         |-> <<3, 0, -2>>,
        MagnetometerScaleFactor  |-> <<45, 1, 2, 3, 44, 5, 6, 7, 46>> ] }

\* Widths of real_t a build may choose: float, double, long double.
RealSizes == { 4, 8, 16 }

InitFn ==
    /\ InitProgram
    /\ \E s \in FnStates, p \in FnErrors, n \in RealSizes :
           fn = [ FnIdle EXCEPT !.s = s, !.p = p, !.sizeof_real_t = n ]

UnchangedProgram ==
    UNCHANGED << ahrs, ahrs_errors, process_noise, error_process_noise, meas,
                 measurement_covariance, pc, dt, out_state, last_call, calls, tick >>

\* Both measurement models on one field.
EvalExpectedMeasurement(key) ==
    /\ fn' = [ fn EXCEPT !.eval =
                 << [ key      |-> key,
                      by_state |-> expected_measurement("ahrs", key, fn.s, fn.p),
                      by_error |-> expected_measurement("ahrs_errors", key, fn.p, fn.s) ] >> ]
    /\ UnchangedProgram

ukf_config_get_precision ==
    /\ fn' = [ fn EXCEPT !.precision =
                 << ukf_config_get_precision_value(fn.sizeof_real_t) >> ]
    /\ UnchangedProgram

NextFn ==
    \/ \E key \in MeasurementKeySet : EvalExpectedMeasurement(key)
    \/ ukf_config_get_precision

SpecFn == InitFn /\ [][NextFn]_vars

(***************************************************************************)
(* Properties.                                                             *)
(***************************************************************************)
AtReturn == pc = Len(ukf_iterate_body) + 1

Executed(name) ==
    /\ Len(tick'.trace) = Len(tick.trace) + 1
    /\ tick'.trace[Len(tick'.trace)] = name

StageCycle(s, t) ==
    \/ s = "IDLE" /\ t = "A_PRIORI_DONE"
    \/ s = "A_PRIORI_DONE" /\ t = "INNOVATION_DONE"
    \/ s = "INNOVATION_DONE" /\ t = "IDLE"

SixSteps ==
    << "ahrs.a_priori_step", "ahrs.innovation_step", "ahrs.a_posteriori_step",
       "ahrs_errors.a_priori_step", "ahrs_errors.innovation_step",
       "ahrs_errors.a_posteriori_step" >>

IsFilterStep(name) == \E i \in 1..Len(SixSteps) : SixSteps[i] = name

FilterMoves(f, g, steps) ==
    IF \E name \in steps : Executed(name)
    THEN StageCycle(f.stage, g.stage)
    ELSE g.stage = f.stage

\* C1: every ukf_iterate call runs the six filter steps in the order
\* ahrs a-priori, innovation, a-posteriori, then ahrs_errors a-priori,
\* innovation, a-posteriori; each step of a filter moves its stage one
\* place along IDLE -> A_PRIORI_DONE -> INNOVATION_DONE -> IDLE, nothing
\* else moves it, and both filters are IDLE when ukf_iterate returns.
C1_StepOrder ==
    [][ /\ FilterMoves(ahrs, ahrs',
                       { "ahrs.a_priori_step", "ahrs.innovation_step",
                         "ahrs.a_posteriori_step" })
        /\ FilterMoves(ahrs_errors, ahrs_errors',
                       { "ahrs_errors.a_priori_step", "ahrs_errors.innovation_step",
                         "ahrs_errors.a_posteriori_step" })
        /\ (pc' = Len(ukf_iterate_body) + 1 =>
                SelectSeq(tick'.trace, IsFilterStep) = SixSteps)
        /\ (pc' = Len(ukf_iterate_body) + 1 \/ pc' = 0 =>
                ahrs'.stage = "IDLE" /\ ahrs_errors'.stage = "IDLE")
      ]_vars

\* A second tick, with a measurement, is about to return after all six steps.
C1_Witness ==
    /\ AtReturn
    /\ SelectSeq(tick.trace, IsFilterStep) = SixSteps
    /\ last_call.op = "ukf_iterate"
    /\ meas # <<>>

\* C2: the input ahrs_errors.innovation_step receives is the mean ahrs had
\* after its a-priori step of the same tick (before its measurement update).
C2_InputIsAPrioriMean ==
    tick.errors_input # <<>> /\ tick.ahrs_prior # <<>> =>
        tick.errors_input[1] = tick.ahrs_prior[1].state

\* C3: when ukf_iterate is about to return, the innovation covariance the
\* a-posteriori step of ahrs_errors read is its own one of this tick plus
\* the one ahrs computed in this tick, the sum was formed once, and
\* ahrs.innovation_covariance still is what ahrs computed.
C3_InnovationCovarianceSum ==
    AtReturn =>
        /\ tick.additions = 1
        /\ Len(tick.errors_S_own[1]) = Len(tick.ahrs_S[1])
        /\ tick.errors_S_used =
               << [ j \in 1..Len(tick.errors_S_own[1]) |->
                      tick.errors_S_own[1][j] + tick.ahrs_S[1][j] ] >>
        /\ ahrs.innovation_covariance = tick.ahrs_S[1]

\* A tick with two enabled measurement fields is about to return.
C3_Witness ==
    /\ AtReturn
    /\ Len(tick.ahrs_S[1]) = 6
    /\ tick.errors_S_used # tick.errors_S_own

\* C4: when a tick run on an empty measurement vector (ukf_sensor_clear was
\* the last sensor call) is about to return, both residuals are empty and
\* each filter's state and covariance are those after its a-priori step.
C4_EmptyMeasurementNoUpdate ==
    AtReturn /\ (meas = <<>> \/ last_call.op = "ukf_sensor_clear") =>
        /\ ahrs.innovation = <<>>
        /\ ahrs_errors.innovation = <<>>
        /\ ahrs.state = tick.ahrs_prior[1].state
        /\ ahrs.covariance = tick.ahrs_prior[1].covariance
        /\ ahrs_errors.state = tick.errors_prior[1].state
        /\ ahrs_errors.covariance = tick.errors_prior[1].covariance

\* A tick called right after ukf_sensor_clear, itself the third call at
\* least, is about to return; its a-priori step moved the covariance.
C4_Witness ==
    /\ AtReturn
    /\ last_call.op = "ukf_sensor_clear"
    /\ meas = <<>>
    /\ calls >= 3
    /\ ahrs.covariance.diag # ukf_init_covariance(ahrs.covariance).diag

\* C5: the attitude ukf_get_state hands out has unit norm.
C5_UnitNorm ==
    last_call.op = "ukf_get_state" => QNormSquared(out_state.attitude) = 1

\* C6: ukf_get_state right after ukf_set_state(s) returns s in all ten
\* entries; right after ukf_set_attitude(w, x, y, z) it returns attitude
\* [x, y, z, w]; right after the setter of a vector field it returns that
\* vector; and the setter of one field leaves the other two fields alone.
C6_SetGetExact ==
    [][ /\ (last_call'.op = "ukf_get_state" /\ calls' = calls + 1 =>
              /\ (last_call.op = "ukf_set_state" => out_state' = last_call.arg)
              /\ (last_call.op = "ukf_set_attitude" =>
                      out_state'.attitude = << last_call.arg[2], last_call.arg[3],
                                               last_call.arg[4], last_call.arg[1] >>)
              /\ (last_call.op = "ukf_set_acceleration" =>
                      out_state'.acceleration = last_call.arg)
              /\ (last_call.op = "ukf_set_angular_velocity" =>
                      out_state'.angular_velocity = last_call.arg))
        /\ (last_call'.op = "ukf_set_attitude" /\ calls' = calls + 1 =>
              /\ ahrs'.state.Acceleration = ahrs.state.Acceleration
              /\ ahrs'.state.AngularVelocity = ahrs.state.AngularVelocity)
        /\ (last_call'.op = "ukf_set_acceleration" /\ calls' = calls + 1 =>
              /\ ahrs'.state.Attitude = ahrs.state.Attitude
              /\ ahrs'.state.AngularVelocity = ahrs.state.AngularVelocity)
        /\ (last_call'.op = "ukf_set_angular_velocity" /\ calls' = calls + 1 =>
              /\ ahrs'.state.Attitude = ahrs.state.Attitude
              /\ ahrs'.state.Acceleration = ahrs.state.Acceleration)
      ]_vars

\* ukf_get_state has returned a struct with ten telling entries that only
\* ukf_set_state stores.
C6_Witness ==
    /\ last_call.op = "ukf_get_state"
    /\ out_state = [ acceleration     |-> <<100000, 200000, 300000>>,
                     attitude         |-> <<0, 1, 0, 0>>,
                     angular_velocity |-> <<4, 6, -2>> ]

\* C7: after ukf_init, whatever came before, the AHRS state is (identity,
\* 0, 0) with covariance diag(1,1,1,1,1,1,5,5,5), the parameter filter has
\* zero biases, unit scales, EARTH_MAG times the identity as magnetometer
\* scale and its default diagonal covariance, and both process-noise
\* matrices are the defaults.
C7_InitResets ==
    pc = 0 /\ last_call.op = "ukf_init" =>
        /\ ahrs.state = [ Attitude        |-> <<0, 0, 0, 1>>,
                          AngularVelocity |-> <<0, 0, 0>>,
                          Acceleration    |-> <<0, 0, 0>> ]
        /\ ahrs.covariance =
               [ diag  |-> << 1000000, 1000000, 1000000, 1000000, 1000000, 1000000,
                              5000000, 5000000, 5000000 >>,
                 dense |-> FALSE ]
        /\ process_noise =
               << 70, 70, 70, 1000000, 1000000, 1000000,
                  20000000, 20000000, 20000000 >>
        /\ ahrs_errors.state.AccelerometerBias = <<0, 0, 0>>
        /\ ahrs_errors.state.GyroscopeBias = <<0, 0, 0>>
        /\ ahrs_errors.state.MagnetometerBias = <<0, 0, 0>>
        /\ ahrs_errors.state.AccelerometerScaleFactor = <<1, 1, 1>>
        /\ ahrs_errors.state.GyroscopeScaleFactor = <<1, 1, 1>>
        /\ \A i, j \in 1..3 :
               ahrs_errors.state.MagnetometerScaleFactor[i + 3 * (j - 1)] =
                   IF i = j THEN 45 ELSE 0
        /\ ahrs_errors.covariance =
               [ diag  |-> << 490000, 490000, 784000, 30000, 30000, 30000,
                              350000, 350000, 350000, 30000, 30000, 30000,
                              10000000, 10000000, 10000000,
                              2250000, 2250000, 2250000, 2250000, 2250000,
                              2250000, 2250000, 2250000, 2250000 >>,
                 dense |-> FALSE ]
        /\ error_process_noise =
               << 52, 52, 52, 0, 0, 0, 3000, 3000, 3000, 0, 0, 0,
                  15000, 15000, 15000, 0, 0, 0, 0, 0, 0, 0, 0, 0 >>

\* ukf_init has returned after a tick that applied a measurement update.
C7_Witness ==
    /\ pc = 0
    /\ last_call.op = "ukf_init"
    /\ calls >= 3
    /\ ahrs.innovation # <<>>

\* C8: ukf_config_get_precision returns UKF_PRECISION_FLOAT when real_t is
\* 32 bits wide and UKF_PRECISION_DOUBLE when it is 64 bits wide (a byte
\* has eight bits).
C8_Precision ==
    fn.precision # <<>> =>
        /\ (8 * fn.sizeof_real_t = 32 => fn.precision[1] = "UKF_PRECISION_FLOAT")
        /\ (8 * fn.sizeof_real_t = 64 => fn.precision[1] = "UKF_PRECISION_DOUBLE")

\* The accessor has answered in a build with a 64-bit real_t.
C8_Witness ==
    /\ fn.precision = << "UKF_PRECISION_DOUBLE" >>
    /\ fn.sizeof_real_t = 8

ParameterVariables ==
    << meas, measurement_covariance, process_noise, error_process_noise >>

\* C9: no step of ukf_iterate, from the call to the return, changes meas,
\* measurement_covariance, process_noise or error_process_noise; each of
\* them changes only in a returning call of the interface function that
\* sets it.
C9_ParametersFrame ==
    [][ /\ (pc # 0 \/ pc' # 0 => UNCHANGED ParameterVariables)
        /\ (meas' # meas =>
              last_call'.op \in { "ukf_sensor_clear", "ukf_sensor_set_accelerometer",
                                  "ukf_sensor_set_gyroscope",
                                  "ukf_sensor_set_magnetometer" })
        /\ (measurement_covariance' # measurement_covariance =>
              last_call'.op = "ukf_set_params")
        /\ (process_noise' # process_noise =>
              last_call'.op \in { "ukf_set_process_noise", "ukf_init" })
        /\ (error_process_noise' # error_process_noise => last_call'.op = "ukf_init")
      ]_vars

\* A tick is about to return with a sensor field set and the measurement
\* covariance changed before it.
C9_Witness ==
    /\ AtReturn
    /\ meas # <<>>
    /\ measurement_covariance # measurement_covariance_init
    /\ Len(tick.trace) = Len(ukf_iterate_body)

\* C10: for a state s, a sensor-error state p and a field F, the AHRS
\* model on (s, p) and the parameter filter model on (p, s) give the same
\* vector: bias + scale applied to the prediction of F from s alone.
C10_ModelsAgree ==
    fn.eval # <<>> =>
        LET e     == fn.eval[1]
            ideal == expected_measurement_Ideal(e.key, fn.s)
        IN  /\ e.by_state = e.by_error
            /\ e.key = "Accelerometer" =>
                   e.by_state = [ i \in 1..3 |-> fn.p.AccelerometerBias[i]
                                    + fn.p.AccelerometerScaleFactor[i] * ideal[i] ]
            /\ e.key = "Gyroscope" =>
                   e.by_state = [ i \in 1..3 |-> fn.p.GyroscopeBias[i]
                                    + fn.p.GyroscopeScaleFactor[i] * ideal[i] ]
            /\ e.key = "Magnetometer" =>
                   e.by_state = [ i \in 1..3 |-> fn.p.MagnetometerBias[i]
                                    + fn.p.MagnetometerScaleFactor[i] * ideal[1]
                                    + fn.p.MagnetometerScaleFactor[i + 3] * ideal[2]
                                    + fn.p.MagnetometerScaleFactor[i + 6] * ideal[3] ]

\* Both magnetometer models have been evaluated on a tilted attitude and a
\* scale matrix that is not symmetric.
C10_Witness ==
    /\ fn.eval # <<>>
    /\ fn.eval[1].key = "Magnetometer"
    /\ fn.s.Attitude = <<1, -1, 0, 2>>
    /\ fn.p.MagnetometerScaleFactor = <<45, 1, 2, 3, 44, 5, 6, 7, 46>>

=============================================================================
